---------------------------- MODULE Spec2Model ----------------------------
(***************************************************************************)
(* A model of the two learning agents of postapply-rl:                     *)
(*   QLearningScheduler        (src/src/rl_algorithms/q_learning.py)       *)
(*   ThompsonSamplingMessenger (src/src/rl_algorithms/thompson_sampling.py)*)
(* Q-values, hyperparameters and Beta samples are Python floats; they are  *)
(* modelled as exact rationals <<numerator, denominator>> in lowest terms. *)
(* Python dicts are functions; a dict that is shared by reference is an    *)
(* object of the heap, and an attribute holding it is an object id.        *)
(***************************************************************************)
EXTENDS Integers, Sequences, FiniteSets, TLC

VARIABLES
    heap,     \* scheduler: object id -> Q-table dict {state_key: {action: q}}
    inst,     \* scheduler: instance name -> QLearningScheduler attributes
    snap,     \* scheduler: the dict last returned by to_dict(), or NoSnap
    ret,      \* scheduler: the last call, its arguments and what it returned
    nupd,     \* scheduler: number of update() calls made so far
    theap,    \* bandit: object id -> distributions dict
    tinst,    \* bandit: instance name -> ThompsonSamplingMessenger attributes
    tsnap,    \* bandit: the dict last returned by to_dict(), or NoSnap
    tret,     \* bandit: the last call, its arguments and what it returned
    ncall,    \* bandit: number of select_arm() and update() calls so far
    tally,    \* bandit: <<context key, arm>> -> <<successes, failures>> fed to update()
    nsel,     \* bandit: number of select_arm() calls made so far
    pc,       \* threads: thread -> position inside its call
    call,     \* threads: thread -> the call it runs and its arguments
    loc,      \* threads: thread -> the call's local variables
    db,       \* database: agent_type -> the RLState row stored for it
    today     \* clock: whole days since the application's applied_date

vars == <<heap, inst, snap, ret, nupd, theap, tinst, tsnap, tret, ncall,
          tally, nsel, pc, call, loc, db, today>>
qlvars == <<heap, inst, snap, ret, nupd>>
tsvars == <<theap, tinst, tsnap, tret, ncall, tally, nsel>>
thvars == <<pc, call, loc>>
dbvars == <<db>>

---------------------------------------------------------------------------
(* Bounds of the model.                                                    *)
MaxUpdates == 2
MaxCalls == 3
NThreads == 2

---------------------------------------------------------------------------
(* Floats as exact rationals.                                              *)
RECURSIVE GCD(_, _)
GCD(a, b) == IF b = 0 THEN a ELSE GCD(b, a % b)

Abs(n) == IF n < 0 THEN -n ELSE n

Rat(n, d) ==
    LET g == GCD(Abs(n), Abs(d))
        s == IF d < 0 THEN -1 ELSE 1
    IN  <<(s * n) \div g, (s * d) \div g>>

FromInt(n) == <<n, 1>>
RZero == <<0, 1>>
ROne == <<1, 1>>
RAdd(x, y) ==
    LET g == GCD(x[2], y[2])
    IN  Rat(x[1] * (y[2] \div g) + y[1] * (x[2] \div g), (x[2] \div g) * y[2])
RNeg(x) == <<-x[1], x[2]>>
RSub(x, y) == RAdd(x, RNeg(y))
RMul(x, y) ==
    LET g1 == GCD(Abs(x[1]), y[2])
        g2 == GCD(Abs(y[1]), x[2])
    IN  Rat((x[1] \div g1) * (y[1] \div g2), (x[2] \div g2) * (y[2] \div g1))
RLess(x, y) ==
    LET g == GCD(x[2], y[2])
    IN  x[1] * (y[2] \div g) < y[1] * (x[2] \div g)
RLeq(x, y) == ~RLess(y, x)
RDivInt(x, n) == Rat(x[1], x[2] * n)

Range(s) == {s[i] : i \in 1..Len(s)}

(* Python's max(iterable): the first greatest element of a sequence.       *)
RECURSIVE SeqMax(_)
SeqMax(s) ==
    IF Len(s) = 1 THEN s[1]
    ELSE LET m == SeqMax(SubSeq(s, 1, Len(s) - 1))
         IN  IF RLess(m, s[Len(s)]) THEN s[Len(s)] ELSE m

(* Python's max(keys, key=f): the first key, in iteration order, whose     *)
(* value no other key's value exceeds.                                     *)
RECURSIVE FirstMaxKey(_, _)
FirstMaxKey(keys, f) ==
    IF Len(keys) = 1 THEN keys[1]
    ELSE LET m == FirstMaxKey(SubSeq(keys, 1, Len(keys) - 1), f)
             k == keys[Len(keys)]
         IN  IF RLess(f[m], f[k]) THEN k ELSE m

(* None where a tuple is expected, None or {} where a dict is expected (both *)
(* are falsy), and an instance that has not been constructed.              *)
NoState == <<>>
NoSnap == [k \in {} |-> 0]
NoAgent == [none |-> TRUE]
NoRow == [none |-> TRUE]
NoRows == [q_learning |-> NoRow, thompson_sampling |-> NoRow]
Objs == {"o1", "o2"}
Insts == {"A", "B"}


---------------------------------------------------------------------------
(* Python dicts.                                                           *)
EmptyDict == [k \in {} |-> RZero]
Put(d, k, v) == [x \in (DOMAIN d) \cup {k} |-> IF x = k THEN v ELSE d[x]]
Get(d, k, default) == IF k \in DOMAIN d THEN d[k] ELSE default
BoolStr(b) == IF b THEN "True" ELSE "False"

---------------------------------------------------------------------------
(* QLearningScheduler.                                                     *)

(* self.actions as __init__ sets it.                                       *)
Actions == <<"wait_1d", "wait_3d", "wait_5d", "wait_7d", "wait_10d", "wait_14d">>

(* The hyperparameters SchedulerAgent and the module's self-test pass.     *)
DefaultAlpha == Rat(1, 10)
DefaultGamma == Rat(9, 10)
DefaultEpsilon == Rat(1, 10)

(* A variant whose bucket boundaries exclude the upper day.                *)
GetStateKey_Strict(days_since_applied, company_type, has_connection) ==
    LET day_bucket ==
            IF days_since_applied < 2 THEN "0-2"
            ELSE IF days_since_applied < 5 THEN "3-5"
            ELSE IF days_since_applied < 10 THEN "6-10"
            ELSE "11+"
    IN  day_bucket \o "_" \o company_type \o "_" \o BoolStr(has_connection)

GetStateKey(days_since_applied, company_type, has_connection) ==
    LET day_bucket ==
            IF days_since_applied <= 2 THEN "0-2"
            ELSE IF days_since_applied <= 5 THEN "3-5"
            ELSE IF days_since_applied <= 10 THEN "6-10"
            ELSE "11+"
    IN  day_bucket \o "_" \o company_type \o "_" \o BoolStr(has_connection)

StateKeyOf(state) == GetStateKey(state[1], state[2], state[3])

(* {action: 0.0 for action in self.actions}                                *)
NewRow(actions) == [a \in Range(actions) |-> RZero]

(* if state_key not in self.q_table: self.q_table[state_key] = {...}       *)
EnsureRow(q_table, state_key, actions) ==
    IF state_key \in DOMAIN q_table THEN q_table
    ELSE Put(q_table, state_key, NewRow(actions))

(* The values of a row in the row's own (insertion) order, which is the    *)
(* order of self.actions: every row is built by iterating self.actions.    *)
RowValues(q_values, actions) ==
    [i \in 1..Len(actions) |-> q_values[actions[i]]]

(* A variant that takes the least value instead of the greatest.           *)
BestActions_Min(q_values, actions) ==
    {a \in DOMAIN q_values : \A b \in DOMAIN q_values : RLeq(q_values[a], q_values[b])}

(* max_q = max(q_values.values());                                         *)
(* best_actions = [a for a, q in q_values.items() if q == max_q]           *)
BestActions(q_values, actions) ==
    LET max_q == SeqMax(RowValues(q_values, actions))
    IN  {a \in DOMAIN q_values : q_values[a] = max_q}

(* explore and random.random() < self.epsilon                              *)
Explores(explore, draw, epsilon) == explore /\ RLess(draw, epsilon)

(* get_action: the table after the call and every action the call's        *)
(* random.choice can return.                                               *)
QL_get_action(h, ag, days, company, conn, explore, draw) ==
    LET state_key == GetStateKey(days, company, conn)
        t1 == EnsureRow(h[ag.q_table], state_key, ag.actions)
    IN  [heap |-> [h EXCEPT ![ag.q_table] = t1],
         choices |-> IF Explores(explore, draw, ag.epsilon)
                     THEN Range(ag.actions)
                     ELSE BestActions(t1[state_key], ag.actions)]

(* A variant that leaves out "- current_q".                                *)
TDUpdate_NoOld(current_q, alpha, gamma, reward, max_next_q) ==
    RAdd(current_q, RMul(alpha, RAdd(reward, RMul(gamma, max_next_q))))

(* new_q = current_q + alpha * (reward + gamma * max_next_q - current_q)   *)
TDUpdate(current_q, alpha, gamma, reward, max_next_q) ==
    RAdd(current_q,
         RMul(alpha, RSub(RAdd(reward, RMul(gamma, max_next_q)), current_q)))

(* max_next_q: 0.0 for a terminal next state, else the largest value of    *)
(* the next state's row in table t.                                        *)
MaxNextQ(t, next_state, actions) ==
    IF next_state = NoState THEN RZero
    ELSE SeqMax(RowValues(t[StateKeyOf(next_state)], actions))

(* A variant that reads the current value with .get(action, 0.0), so that  *)
(* an unknown action is stored instead of raising.                         *)
QL_update_Get(h, ag, state, action, reward, next_state) ==
    LET state_key == StateKeyOf(state)
        t1 == EnsureRow(h[ag.q_table], state_key, ag.actions)
        current_q == Get(t1[state_key], action, RZero)
        t2 == IF next_state = NoState THEN t1
              ELSE EnsureRow(t1, StateKeyOf(next_state), ag.actions)
        max_next_q == MaxNextQ(t2, next_state, ag.actions)
        new_q == TDUpdate(current_q, ag.alpha, ag.gamma, FromInt(reward), max_next_q)
        t3 == [t2 EXCEPT ![state_key] = Put(@, action, new_q)]
    IN  [heap |-> [h EXCEPT ![ag.q_table] = t3],
         ag |-> [ag EXCEPT !.total_updates = @ + 1],
         raised |-> FALSE]

(* A variant that forgets self.total_updates += 1.                         *)
QL_update_NoCount(h, ag, state, action, reward, next_state) ==
    LET state_key == StateKeyOf(state)
        t1 == EnsureRow(h[ag.q_table], state_key, ag.actions)
    IN  IF action \notin DOMAIN t1[state_key]
        THEN [heap |-> [h EXCEPT ![ag.q_table] = t1], ag |-> ag, raised |-> TRUE]
        ELSE
        LET current_q == t1[state_key][action]
            t2 == IF next_state = NoState THEN t1
                  ELSE EnsureRow(t1, StateKeyOf(next_state), ag.actions)
            max_next_q == MaxNextQ(t2, next_state, ag.actions)
            new_q == TDUpdate(current_q, ag.alpha, ag.gamma, FromInt(reward), max_next_q)
            t3 == [t2 EXCEPT ![state_key][action] = new_q]
        IN  [heap |-> [h EXCEPT ![ag.q_table] = t3],
             ag |-> ag,
             raised |-> FALSE]

(* update: the heap and the attributes after the call, and whether it      *)
(* raised (KeyError at q_table[state_key][action]).                        *)
QL_update(h, ag, state, action, reward, next_state) ==
    LET state_key == StateKeyOf(state)
        t1 == EnsureRow(h[ag.q_table], state_key, ag.actions)
    IN  IF action \notin DOMAIN t1[state_key]
        THEN [heap |-> [h EXCEPT ![ag.q_table] = t1], ag |-> ag, raised |-> TRUE]
        ELSE
        LET current_q == t1[state_key][action]
            t2 == IF next_state = NoState THEN t1
                  ELSE EnsureRow(t1, StateKeyOf(next_state), ag.actions)
            max_next_q == MaxNextQ(t2, next_state, ag.actions)
            new_q == TDUpdate(current_q, ag.alpha, ag.gamma, FromInt(reward), max_next_q)
            t3 == [t2 EXCEPT ![state_key][action] = new_q]
        IN  [heap |-> [h EXCEPT ![ag.q_table] = t3],
             ag |-> [ag EXCEPT !.total_updates = @ + 1],
             raised |-> FALSE]

(* A variant without key=: max(q_values) is the greatest key string.       *)
ArgMaxAction_NoKey(q_values, actions) == "wait_7d"

(* A variant that keeps the last greatest entry instead of the first.      *)
ArgMaxAction_Last(q_values, actions) ==
    LET n == Len(actions)
    IN  actions[n + 1 - CHOOSE i \in 1..n :
                  actions[n + 1 - i] =
                    FirstMaxKey([j \in 1..n |-> actions[n + 1 - j]], q_values)]

(* best_action = max(q_values, key=q_values.get)                           *)
ArgMaxAction(q_values, actions) == FirstMaxKey(actions, q_values)

QL_get_best_action(h, ag, days, company, conn) ==
    LET state_key == GetStateKey(days, company, conn)
        t1 == EnsureRow(h[ag.q_table], state_key, ag.actions)
        best_action == ArgMaxAction(t1[state_key], ag.actions)
    IN  [heap |-> [h EXCEPT ![ag.q_table] = t1],
         action |-> best_action,
         value |-> t1[state_key][best_action]]

(* The (state key, action) pairs that hold a value in table t.             *)
Cells(t) == UNION {{<<k, a>> : a \in DOMAIN t[k]} : k \in DOMAIN t}

(* Sum of the values of the cells S of table t.                            *)
RECURSIVE SumCells(_, _)
SumCells(S, t) ==
    IF S = {} THEN RZero
    ELSE LET c == CHOOSE x \in S : TRUE
         IN  RAdd(t[c[1]][c[2]], SumCells(S \ {c}, t))

MaxCell(S, t) ==
    LET c == CHOOSE x \in S : \A y \in S : RLeq(t[y[1]][y[2]], t[x[1]][x[2]])
    IN  t[c[1]][c[2]]
MinCell(S, t) ==
    LET c == CHOOSE x \in S : \A y \in S : RLeq(t[x[1]][x[2]], t[y[1]][y[2]])
    IN  t[c[1]][c[2]]

(* get_q_table_summary: the dict it returns.  On an empty table the early  *)
(* return gives three keys only.                                           *)
QL_get_q_table_summary(h, ag) ==
    LET t == h[ag.q_table]
        all_q_values == Cells(t)
    IN  IF DOMAIN t = {}
        THEN [total_states |-> 0,
              total_updates |-> ag.total_updates,
              avg_q_value |-> RZero]
        ELSE [total_states |-> Cardinality(DOMAIN t),
              total_updates |-> ag.total_updates,
              avg_q_value |-> IF all_q_values # {}
                              THEN RDivInt(SumCells(all_q_values, t),
                                           Cardinality(all_q_values))
                              ELSE RZero,
              max_q_value |-> IF all_q_values # {} THEN MaxCell(all_q_values, t)
                              ELSE RZero,
              min_q_value |-> IF all_q_values # {} THEN MinCell(all_q_values, t)
                              ELSE RZero]

(* to_dict: the returned dict holds the Q-table object itself, not a copy. *)
(* last_updated is a timestamp that load_from_dict never reads.            *)
QL_to_dict(ag) ==
    [q_table |-> ag.q_table, alpha |-> ag.alpha, gamma |-> ag.gamma,
     epsilon |-> ag.epsilon, total_updates |-> ag.total_updates,
     actions |-> ag.actions]

(* A variant that does not take over the table of the snapshot.            *)
QL_load_from_dict_NoTable(ag, data, empty) ==
    [q_table |-> empty,
     alpha |-> Get(data, "alpha", ag.alpha),
     gamma |-> Get(data, "gamma", ag.gamma),
     epsilon |-> Get(data, "epsilon", ag.epsilon),
     total_updates |-> Get(data, "total_updates", 0),
     actions |-> Get(data, "actions", ag.actions)]

(* A variant that falls back to the constructor's default values for a     *)
(* hyperparameter the snapshot omits.                                      *)
QL_load_from_dict_Reset(ag, data, empty) ==
    [q_table |-> Get(data, "q_table", empty),
     alpha |-> Get(data, "alpha", DefaultAlpha),
     gamma |-> Get(data, "gamma", DefaultGamma),
     epsilon |-> Get(data, "epsilon", DefaultEpsilon),
     total_updates |-> Get(data, "total_updates", 0),
     actions |-> Get(data, "actions", ag.actions)]

(* load_from_dict; empty is the object of the {} default of                *)
(* data.get('q_table', {}).                                                *)
QL_load_from_dict(ag, data, empty) ==
    [q_table |-> Get(data, "q_table", empty),
     alpha |-> Get(data, "alpha", ag.alpha),
     gamma |-> Get(data, "gamma", ag.gamma),
     epsilon |-> Get(data, "epsilon", ag.epsilon),
     total_updates |-> Get(data, "total_updates", 0),
     actions |-> Get(data, "actions", ag.actions)]

(* __init__: own is the object of the new instance's {} table.             *)
QL_init(learning_rate, discount_factor, epsilon, load_from_dict, own) ==
    LET ag == [q_table |-> own, alpha |-> learning_rate,
               gamma |-> discount_factor, epsilon |-> epsilon,
               total_updates |-> 0, actions |-> Actions]
    IN  IF DOMAIN load_from_dict = {} THEN ag
        ELSE QL_load_from_dict(ag, load_from_dict, own)


---------------------------------------------------------------------------
(* ThompsonSamplingMessenger.                                              *)

(* self.arms as __init__ sets it.                                          *)
Arms == <<"formal", "casual", "connection_focused">>

(* A contact title is a sequence of characters; str.lower() on it.         *)
UpperCase == <<"A", "B", "C", "D", "E", "F", "G", "H", "I", "J", "K", "L", "M",
               "N", "O", "P", "Q", "R", "S", "T", "U", "V", "W", "X", "Y", "Z">>
LowerCase == <<"a", "b", "c", "d", "e", "f", "g", "h", "i", "j", "k", "l", "m",
               "n", "o", "p", "q", "r", "s", "t", "u", "v", "w", "x", "y", "z">>
LowerMap == [c \in Range(UpperCase) |->
               LowerCase[CHOOSE i \in 1..Len(UpperCase) : UpperCase[i] = c]]
LowerChar(c) == IF c \in DOMAIN LowerMap THEN LowerMap[c] ELSE c
Lower(title) == [i \in 1..Len(title) |-> LowerChar(title[i])]

(* word in title_lower                                                     *)
Contains(word, text) ==
    \E i \in 0..(Len(text) - Len(word)) :
        \A j \in 1..Len(word) : text[i + j] = word[j]

RecruiterWords == {<<"r", "e", "c", "r", "u", "i", "t">>,
                   <<"t", "a", "l", "e", "n", "t">>,
                   <<"h", "r">>}
ExecutiveWords == {<<"v", "p">>,
                   <<"v", "i", "c", "e", " ", "p", "r", "e", "s", "i", "d", "e", "n", "t">>,
                   <<"c", "h", "i", "e", "f">>,
                   <<"h", "e", "a", "d">>}
DirectorWords == {<<"d", "i", "r", "e", "c", "t", "o", "r">>,
                  <<"l", "e", "a", "d">>}

(* A variant that looks for the executive words first.                     *)
TitleCategory_ExecFirst(contact_title) ==
    LET title_lower == Lower(contact_title)
    IN  IF \E w \in ExecutiveWords : Contains(w, title_lower) THEN "executive"
        ELSE IF \E w \in RecruiterWords : Contains(w, title_lower) THEN "recruiter"
        ELSE IF \E w \in DirectorWords : Contains(w, title_lower) THEN "director"
        ELSE "manager"

TitleCategory(contact_title) ==
    LET title_lower == Lower(contact_title)
    IN  IF \E w \in RecruiterWords : Contains(w, title_lower) THEN "recruiter"
        ELSE IF \E w \in ExecutiveWords : Contains(w, title_lower) THEN "executive"
        ELSE IF \E w \in DirectorWords : Contains(w, title_lower) THEN "director"
        ELSE "manager"

GetContextKey(contact_title, company_culture, has_connection) ==
    TitleCategory(contact_title) \o "_" \o company_culture \o "_"
        \o BoolStr(has_connection)

(* {'alpha': 1.0, 'beta': 1.0}: the parameters are floats that only ever   *)
(* hold whole numbers, modelled as integers.                               *)
Prior == [alpha |-> 1, beta |-> 1]

(* {arm: {'alpha': 1.0, 'beta': 1.0} for arm in self.arms}                 *)
NewBeliefs(arms) == [a \in Range(arms) |-> Prior]

(* if context_key not in self.distributions: self.distributions[...] = ... *)
EnsureContext(distributions, context_key, arms) ==
    IF context_key \in DOMAIN distributions THEN distributions
    ELSE Put(distributions, context_key, NewBeliefs(arms))

(* A variant that selects the arm with the least sample.                   *)
SelectedArm_Min(samples, arms) ==
    FirstMaxKey(arms, [a \in DOMAIN samples |-> RNeg(samples[a])])

(* selected_arm = max(samples, key=samples.get); samples is filled in the  *)
(* order of self.arms.                                                     *)
SelectedArm(samples, arms) == FirstMaxKey(arms, samples)

(* select_arm, with the samples np.random.beta drew for the arms.  Of an   *)
(* arm_history entry only 'arm' is ever read (by get_statistics).          *)
TS_select_arm(h, ag, contact_title, company_culture, has_connection, samples) ==
    LET context_key == GetContextKey(contact_title, company_culture, has_connection)
        d1 == EnsureContext(h[ag.distributions], context_key, ag.arms)
        selected_arm == SelectedArm(samples, ag.arms)
    IN  [heap |-> [h EXCEPT ![ag.distributions] = d1],
         ag |-> [ag EXCEPT !.total_selections = @ + 1,
                           !.arm_history = Append(@, selected_arm)],
         arm |-> selected_arm]

(* A variant that takes a failure off alpha instead of adding it to beta.  *)
TS_update_Signed(h, ag, contact_title, company_culture, has_connection, arm, got_response) ==
    LET context_key == GetContextKey(contact_title, company_culture, has_connection)
        d1 == EnsureContext(h[ag.distributions], context_key, ag.arms)
    IN  IF arm \notin DOMAIN d1[context_key]
        THEN [heap |-> [h EXCEPT ![ag.distributions] = d1], ag |-> ag, raised |-> TRUE]
        ELSE IF got_response
        THEN [heap |-> [h EXCEPT ![ag.distributions] =
                          [d1 EXCEPT ![context_key][arm].alpha = @ + 1]],
              ag |-> [ag EXCEPT !.total_successes = @ + 1],
              raised |-> FALSE]
        ELSE [heap |-> [h EXCEPT ![ag.distributions] =
                          [d1 EXCEPT ![context_key][arm].alpha = @ - 1]],
              ag |-> ag,
              raised |-> FALSE]

(* A variant that also counts a selection in update.                       *)
TS_update_CountsSelection(h, ag, contact_title, company_culture, has_connection, arm, got_response) ==
    LET context_key == GetContextKey(contact_title, company_culture, has_connection)
        d1 == EnsureContext(h[ag.distributions], context_key, ag.arms)
    IN  IF arm \notin DOMAIN d1[context_key]
        THEN [heap |-> [h EXCEPT ![ag.distributions] = d1], ag |-> ag, raised |-> TRUE]
        ELSE IF got_response
        THEN [heap |-> [h EXCEPT ![ag.distributions] =
                          [d1 EXCEPT ![context_key][arm].alpha = @ + 1]],
              ag |-> [ag EXCEPT !.total_successes = @ + 1,
                                !.total_selections = @ + 1],
              raised |-> FALSE]
        ELSE [heap |-> [h EXCEPT ![ag.distributions] =
                          [d1 EXCEPT ![context_key][arm].beta = @ + 1]],
              ag |-> [ag EXCEPT !.total_selections = @ + 1],
              raised |-> FALSE]

(* update: the heap and the attributes after the call, and whether it      *)
(* raised (KeyError at distributions[context_key][arm]).                   *)
TS_update(h, ag, contact_title, company_culture, has_connection, arm, got_response) ==
    LET context_key == GetContextKey(contact_title, company_culture, has_connection)
        d1 == EnsureContext(h[ag.distributions], context_key, ag.arms)
    IN  IF arm \notin DOMAIN d1[context_key]
        THEN [heap |-> [h EXCEPT ![ag.distributions] = d1], ag |-> ag, raised |-> TRUE]
        ELSE IF got_response
        THEN [heap |-> [h EXCEPT ![ag.distributions] =
                          [d1 EXCEPT ![context_key][arm].alpha = @ + 1]],
              ag |-> [ag EXCEPT !.total_successes = @ + 1],
              raised |-> FALSE]
        ELSE [heap |-> [h EXCEPT ![ag.distributions] =
                          [d1 EXCEPT ![context_key][arm].beta = @ + 1]],
              ag |-> ag,
              raised |-> FALSE]

(* The means alpha / (alpha + beta) of the arms of a row.                  *)
MeanOf(row, arms) ==
    [a \in Range(arms) |-> Rat(row[a].alpha, row[a].alpha + row[a].beta)]

(* A variant that creates the row of an unseen context as the other        *)
(* methods do.                                                             *)
TS_get_arm_probabilities_Init(h, ag, contact_title, company_culture, has_connection) ==
    LET context_key == GetContextKey(contact_title, company_culture, has_connection)
        d1 == EnsureContext(h[ag.distributions], context_key, ag.arms)
    IN  [heap |-> [h EXCEPT ![ag.distributions] = d1],
         probs |-> MeanOf(d1[context_key], ag.arms)]

(* get_arm_probabilities: the heap after the call and the dict returned:   *)
(* alpha / (alpha + beta) per arm, 0.5 per arm for a context that is not   *)
(* in the table.                                                           *)
TS_get_arm_probabilities(h, ag, contact_title, company_culture, has_connection) ==
    LET context_key == GetContextKey(contact_title, company_culture, has_connection)
        d == h[ag.distributions]
    IN  [heap |-> h,
         probs |-> IF context_key \notin DOMAIN d
                   THEN [a \in Range(ag.arms) |-> Rat(1, 2)]
                   ELSE MeanOf(d[context_key], ag.arms)]

(* get_best_arm: max(probs, key=probs.get); probs is filled in the order   *)
(* of self.arms.                                                           *)
TS_get_best_arm(h, ag, contact_title, company_culture, has_connection) ==
    LET r == TS_get_arm_probabilities(h, ag, contact_title, company_culture,
                                      has_connection)
        best_arm == FirstMaxKey(ag.arms, r.probs)
    IN  [heap |-> r.heap, arm |-> best_arm, prob |-> r.probs[best_arm]]

(* A variant that divides by the selection count itself.                   *)
Denominator_NoGuard(total_selections) == total_selections

(* max(self.total_selections, 1)                                           *)
Denominator(total_selections) ==
    IF total_selections > 1 THEN total_selections ELSE 1

(* get_statistics: the dict returned, or raised (ZeroDivisionError) when   *)
(* the divisor is 0.                                                       *)
TS_get_statistics(h, ag) ==
    LET den == Denominator(ag.total_selections)
    IN  IF den = 0 THEN [raised |-> TRUE, result |-> <<>>]
        ELSE [raised |-> FALSE,
              result |->
                [total_contexts |-> Cardinality(DOMAIN h[ag.distributions]),
                 total_selections |-> ag.total_selections,
                 total_successes |-> ag.total_successes,
                 success_rate |-> Rat(ag.total_successes, den),
                 arm_counts |->
                   [a \in Range(ag.arms) |->
                      Cardinality({i \in 1..Len(ag.arm_history) :
                                     ag.arm_history[i] = a})]]]

(* to_dict: the returned dict holds the distributions object itself.       *)
TS_to_dict(ag) ==
    [distributions |-> ag.distributions, arms |-> ag.arms,
     total_selections |-> ag.total_selections,
     total_successes |-> ag.total_successes]

(* A variant that does not take over the success counter.                  *)
TS_load_from_dict_NoSuccesses(ag, data, empty) ==
    [ag EXCEPT !.distributions = Get(data, "distributions", empty),
               !.arms = Get(data, "arms", ag.arms),
               !.total_selections = Get(data, "total_selections", 0),
               !.total_successes = 0]

(* load_from_dict; empty is the object of the {} default.                  *)
TS_load_from_dict(ag, data, empty) ==
    [ag EXCEPT !.distributions = Get(data, "distributions", empty),
               !.arms = Get(data, "arms", ag.arms),
               !.total_selections = Get(data, "total_selections", 0),
               !.total_successes = Get(data, "total_successes", 0)]

(* __init__: own is the object of the new instance's {} table.             *)
TS_init(load_from_dict, own) ==
    LET ag == [distributions |-> own, arms |-> Arms, total_selections |-> 0,
               total_successes |-> 0, arm_history |-> <<>>]
    IN  IF DOMAIN load_from_dict = {} THEN ag
        ELSE TS_load_from_dict(ag, load_from_dict, own)

---------------------------------------------------------------------------
(* The calls made on the scheduler: the arguments the callers pass.        *)
DaysArgs == {1, 4}
CompanyArgs == {"startup"}
ConnArgs == {TRUE}
StateArgs == DaysArgs \X CompanyArgs \X ConnArgs
NextStateArgs == StateArgs \cup {NoState}
ActionArgs == {"wait_1d", "wait_5d", "wait_2d"}
RewardArgs == {10, -6}
DrawArgs == {Rat(0, 1), Rat(1, 2)}
AlphaArgs == {Rat(1, 2)}

Live(i) == "q_table" \in DOMAIN inst[i]
Table(i) == heap[inst[i].q_table]

(* An object no live instance and no snapshot refers to.                   *)
FreeObj ==
    CHOOSE o \in Objs :
        /\ \A i \in Insts : Live(i) => inst[i].q_table # o
        /\ "q_table" \in DOMAIN snap => snap.q_table # o

(* What the last call was and what it returned.                            *)
NoCall ==
    [op |-> "none", state |-> NoState, action |-> "", reward |-> 0,
     next_state |-> NoState, explore |-> FALSE, explored |-> FALSE,
     value |-> RZero, raised |-> FALSE, result |-> <<>>]

QLInit ==
    /\ heap = [o \in Objs |-> EmptyDict]
    /\ \E a \in AlphaArgs :
         inst = [i \in Insts |->
                   IF i = "A"
                   THEN QL_init(a, DefaultGamma, DefaultEpsilon, NoSnap, "o1")
                   ELSE NoAgent]
    /\ snap = NoSnap
    /\ ret = NoCall
    /\ nupd = 0

GetAction(i, state, explore, draw) ==
    /\ Live(i)
    /\ LET r == QL_get_action(heap, inst[i], state[1], state[2], state[3],
                              explore, draw)
       IN  /\ heap' = r.heap
           /\ \E a \in r.choices :
                ret' = [NoCall EXCEPT !.op = "get_action", !.state = state,
                          !.explore = explore,
                          !.explored = Explores(explore, draw, inst[i].epsilon),
                          !.action = a]
    /\ UNCHANGED <<inst, snap, nupd>>
    /\ UNCHANGED <<tsvars, thvars, dbvars, today>>

Update(i, state, action, reward, next_state) ==
    /\ Live(i)
    /\ nupd < MaxUpdates
    /\ LET r == QL_update(heap, inst[i], state, action, reward, next_state)
       IN  /\ heap' = r.heap
           /\ inst' = [inst EXCEPT ![i] = r.ag]
           /\ ret' = [NoCall EXCEPT !.op = "update", !.state = state,
                        !.action = action, !.reward = reward,
                        !.next_state = next_state, !.raised = r.raised]
    /\ nupd' = nupd + 1
    /\ UNCHANGED snap
    /\ UNCHANGED <<tsvars, thvars, dbvars, today>>

GetBestAction(i, state) ==
    /\ Live(i)
    /\ LET r == QL_get_best_action(heap, inst[i], state[1], state[2], state[3])
       IN  /\ heap' = r.heap
           /\ ret' = [NoCall EXCEPT !.op = "get_best_action", !.state = state,
                        !.action = r.action, !.value = r.value]
    /\ UNCHANGED <<inst, snap, nupd>>
    /\ UNCHANGED <<tsvars, thvars, dbvars, today>>

GetSummary(i) ==
    /\ Live(i)
    /\ ret' = [NoCall EXCEPT !.op = "get_q_table_summary",
                 !.result = QL_get_q_table_summary(heap, inst[i])]
    /\ UNCHANGED <<heap, inst, snap, nupd>>
    /\ UNCHANGED <<tsvars, thvars, dbvars, today>>

ToDict(i) ==
    /\ Live(i)
    /\ ret' = [NoCall EXCEPT !.op = "to_dict", !.result = QL_to_dict(inst[i])]
    /\ UNCHANGED <<heap, inst, snap, nupd>>
    /\ UNCHANGED <<tsvars, thvars, dbvars, today>>

(* saved_data = agent.to_dict();                                           *)
(* new_agent = QLearningScheduler(load_from_dict=saved_data)               *)
(* as the module's self-test does; the calls that follow are made on the   *)
(* new instance.                                                           *)
Reload(i) ==
    /\ Live(i)
    /\ inst' = [inst EXCEPT ![i] =
                  QL_init(DefaultAlpha, DefaultGamma, DefaultEpsilon,
                          QL_to_dict(inst[i]), FreeObj)]
    /\ ret' = [NoCall EXCEPT !.op = "load_from_dict"]
    /\ UNCHANGED <<heap, snap, nupd>>
    /\ UNCHANGED <<tsvars, thvars, dbvars, today>>

ThreadsIdle ==
    /\ pc = <<>>
    /\ call = <<>>
    /\ loc = <<>>

(* No RLState row has been stored.                                         *)
DBEmpty == db = NoRows

(* The bandit and the threads when the scheduler alone runs.               *)
TSIdle ==
    /\ theap = [o \in Objs |-> EmptyDict]
    /\ tinst = [i \in Insts |-> NoAgent]
    /\ tsnap = NoSnap
    /\ tret = [op |-> "none"]
    /\ ncall = 0
    /\ tally = EmptyDict
    /\ nsel = 0

Init == QLInit /\ TSIdle /\ ThreadsIdle /\ DBEmpty /\ today = 0

Next ==
    \/ \E s \in StateArgs, e \in BOOLEAN, d \in DrawArgs :
         GetAction("A", s, e, d)
    \/ \E s \in StateArgs, a \in ActionArgs, r \in RewardArgs,
          n \in NextStateArgs :
         Update("A", s, a, r, n)
    \/ \E s \in StateArgs : GetBestAction("A", s)
    \/ GetSummary("A")
    \/ ToDict("A")
    \/ Reload("A")

Spec == Init /\ [][Next]_vars


---------------------------------------------------------------------------
(* Properties of the scheduler, checked under Spec.                        *)

FixedActionSet ==
    {"wait_1d", "wait_3d", "wait_5d", "wait_7d", "wait_10d", "wait_14d"}

(* m is the greatest value of row.                                         *)
IsMaxOf(m, row) ==
    /\ \E b \in DOMAIN row : row[b] = m
    /\ \A b \in DOMAIN row : RLeq(row[b], m)

(* The value the pair (k, a) has in table t; 0 in a row that is absent and *)
(* would be created with all zeros.                                        *)
ValueIn(t, k, a) == IF k \in DOMAIN t THEN t[k][a] ELSE RZero

(* C1: update(state, action, reward, next_state) replaces the entry by     *)
(* old + alpha * (reward + gamma * max_next - old), where max_next is 0    *)
(* for an absent next state and else the greatest value of the next        *)
(* state's row (all zeros if the row was absent); on an empty table with a *)
(* terminal next state the new value is alpha * reward.                    *)
C1_UpdateRule ==
    [][(ret'.op = "update" /\ ~ret'.raised) =>
          LET k == StateKeyOf(ret'.state)
              a == ret'.action
              n == ret'.next_state
              ag == inst["A"]
              old == ValueIn(Table("A"), k, a)
              new == Table("A")'[k][a]
              td(m) == RMul(ag.alpha,
                            RSub(RAdd(FromInt(ret'.reward), RMul(ag.gamma, m)), old))
          IN  /\ n = NoState => RSub(new, old) = td(RZero)
              /\ (n # NoState /\ StateKeyOf(n) \notin DOMAIN Table("A")) =>
                     RSub(new, old) = td(RZero)
              /\ (n # NoState /\ StateKeyOf(n) \in DOMAIN Table("A")) =>
                     \E m \in {Table("A")[StateKeyOf(n)][b] : b \in FixedActionSet} :
                        /\ IsMaxOf(m, Table("A")[StateKeyOf(n)])
                        /\ RSub(new, old) = td(m)
              /\ (DOMAIN Table("A") = {} /\ n = NoState) =>
                     new = RMul(ag.alpha, FromInt(ret'.reward))
    ]_vars

(* An update whose next state's row held a positive value: with alpha 1/2  *)
(* and gamma 9/10, reward 10 on a fresh pair after a first value of 5      *)
(* gives 1/2 * (10 + 9/10 * 5) = 29/4.                                     *)
C1_Witness ==
    /\ ret.op = "update" /\ ~ret.raised /\ nupd = 2
    /\ \E k \in DOMAIN Table("A") :
         \E a \in FixedActionSet : Table("A")[k][a] = Rat(29, 4)

(* C5: every state key present in the value table has an entry for every   *)
(* action of the fixed action set and for no other action.                 *)
C5_NoPartialRows ==
    \A i \in Insts : Live(i) =>
        \A k \in DOMAIN Table(i) : DOMAIN Table(i)[k] = FixedActionSet

(* Rows created by get_action, by update (one of them by a call that       *)
(* raised on an unknown action) and kept across a reload.                  *)
C5_Witness ==
    /\ Cardinality(DOMAIN Table("A")) = 2
    /\ ret.op = "load_from_dict"
    /\ nupd = 2
    /\ inst["A"].total_updates = 1

(* C7: select_action returns, for every state, an action of the fixed      *)
(* action set; when it does not explore the action has the greatest value  *)
(* of the state's row, and every action with the greatest value can be     *)
(* returned.                                                               *)
C7_SelectAction ==
    /\ ret.op = "get_action" =>
          LET row == Table("A")[StateKeyOf(ret.state)]
          IN  /\ ~ret.raised
              /\ ret.action \in FixedActionSet
              /\ ~ret.explored =>
                    \A b \in FixedActionSet : RLeq(row[b], row[ret.action])
              /\ ret.explored => ret.explore
    /\ \A s \in StateArgs, e \in BOOLEAN, d \in DrawArgs :
          LET k == StateKeyOf(s)
              can == QL_get_action(heap, inst["A"], s[1], s[2], s[3], e, d).choices
          IN  /\ can # {}
              /\ ~(e /\ RLess(d, inst["A"].epsilon)) =>
                    \A m \in FixedActionSet :
                       (\A b \in FixedActionSet :
                           RLeq(ValueIn(Table("A"), k, b), ValueIn(Table("A"), k, m)))
                       => m \in can

(* A greedy selection that returned the single best action of a row in     *)
(* which one action has a positive value.                                  *)
C7_Witness ==
    /\ ret.op = "get_action" /\ ret.explore /\ ~ret.explored
    /\ \E k \in {StateKeyOf(ret.state)} :
         /\ RLess(RZero, Table("A")[k][ret.action])
         /\ \A b \in FixedActionSet \ {ret.action} :
               RLess(Table("A")[k][b], Table("A")[k][ret.action])

(* C8: best_action returns (action, value) where value is the stored value *)
(* of the action and the greatest value of the state's row; after one      *)
(* update with positive alpha * reward on an empty table it returns the    *)
(* updated action and alpha * reward.                                      *)
C8_BestAction ==
    [][ret'.op = "get_best_action" =>
          LET k == StateKeyOf(ret'.state)
              row == Table("A")'[k]
          IN  /\ ret'.action \in FixedActionSet
              /\ ret'.value = row[ret'.action]
              /\ IsMaxOf(ret'.value, row)
              /\ (ret.op = "update" /\ ~ret.raised /\ nupd = 1
                    /\ StateKeyOf(ret.state) = k
                    /\ RLess(RZero, RMul(inst["A"].alpha, FromInt(ret.reward)))) =>
                    /\ ret'.action = ret.action
                    /\ ret'.value = RMul(inst["A"].alpha, FromInt(ret.reward))
    ]_vars

(* best_action after the single update of the design's example: alpha 1/2, *)
(* reward 10 on wait_5d, answered with ("wait_5d", 5).                     *)
C8_Witness ==
    /\ ret.op = "get_best_action"
    /\ nupd = 1
    /\ ret.action = "wait_5d"
    /\ ret.value = FromInt(5)

(* The actions best_action and select_action(explore = false) can return   *)
(* for a state.                                                            *)
BestActionReturns(s) ==
    {QL_get_best_action(heap, inst["A"], s[1], s[2], s[3]).action}
GreedyReturns(s) ==
    UNION {QL_get_action(heap, inst["A"], s[1], s[2], s[3], FALSE, d).choices :
             d \in DrawArgs}

(* C9 as stated: best_action and select_action(explore = false) can return *)
(* the same set of actions, ties included.                                 *)
C9_SameReturns ==
    \A s \in StateArgs : BestActionReturns(s) = GreedyReturns(s)

(* C9 amended: best_action returns one of the actions that                 *)
(* select_action(explore = false) can return, namely the first of them in  *)
(* the order of the action set; the two can return the same actions        *)
(* exactly when one action alone has the greatest value.                   *)
C9_FirstOfGreedy ==
    \A s \in StateArgs :
        /\ BestActionReturns(s) \subseteq GreedyReturns(s)
        /\ \A i \in 1..Len(Actions) :
              Actions[i] \in BestActionReturns(s) =>
                 \A j \in 1..(i - 1) : Actions[j] \notin GreedyReturns(s)
        /\ (BestActionReturns(s) = GreedyReturns(s))
              <=> (Cardinality(GreedyReturns(s)) = 1)

(* best_action answered with the first of two actions that tie for the     *)
(* greatest value of the row.                                              *)
C9_Witness ==
    /\ ret.op = "get_best_action"
    /\ ret.action = "wait_1d"
    /\ RLess(RZero, ret.value)
    /\ \E k \in DOMAIN Table("A") :
         /\ Table("A")[k]["wait_1d"] = ret.value
         /\ Table("A")[k]["wait_5d"] = ret.value

(* Every value of table t is the value it had in table t0, a row that t0   *)
(* lacks being all zeros, except for the entries in Except.                *)
SameValues(t0, t, Except) ==
    /\ DOMAIN t0 \subseteq DOMAIN t
    /\ \A k \in DOMAIN t : \A a \in DOMAIN t[k] :
          <<k, a>> \notin Except => t[k][a] = ValueIn(t0, k, a)

(* C11: an update call that returns changes no entry but the one it names  *)
(* and adds exactly 1 to total_updates; select_action, best_action,        *)
(* summary and serialize (and an update that raises) change no stored      *)
(* value, may only add all-zero rows, and leave total_updates unchanged.   *)
C11_UpdateOnly ==
    [][/\ (ret'.op = "update" /\ ~ret'.raised) =>
            /\ inst'["A"].total_updates = inst["A"].total_updates + 1
            /\ SameValues(Table("A"), Table("A")',
                          {<<StateKeyOf(ret'.state), ret'.action>>})
       /\ (\/ ret'.op \in {"get_action", "get_best_action",
                           "get_q_table_summary", "to_dict"}
           \/ (ret'.op = "update" /\ ret'.raised)) =>
            /\ inst'["A"].total_updates = inst["A"].total_updates
            /\ SameValues(Table("A"), Table("A")', {})
    ]_vars

(* A serialization made after two updates that returned: the counter is 2  *)
(* and the table holds a value that is not zero.                           *)
C11_Witness ==
    /\ ret.op = "to_dict"
    /\ ret.result.total_updates = 2
    /\ inst["A"].total_updates = 2
    /\ \E c \in Cells(Table("A")) : Table("A")[c[1]][c[2]] # RZero

(* C18: no operation of either agent raises a key-not-found failure,       *)
(* whatever the table and the arguments.                                   *)
C18_NoKeyError ==
    /\ ~ret.raised
    /\ "raised" \in DOMAIN tret => ~tret.raised

(* C19: summary() returns the number of state keys, the update count and   *)
(* the mean, max and min over all stored values; on an empty table all     *)
(* three statistics are returned with value 0.                             *)
C19_Summary ==
    ret.op = "get_q_table_summary" =>
        LET r == ret.result
            t == Table("A")
            S == Cells(t)
        IN  /\ r.total_states = Cardinality(DOMAIN t)
            /\ r.total_updates = inst["A"].total_updates
            /\ {"avg_q_value", "max_q_value", "min_q_value"} \subseteq DOMAIN r
            /\ DOMAIN t = {} =>
                  /\ r.avg_q_value = RZero
                  /\ r.max_q_value = RZero
                  /\ r.min_q_value = RZero
            /\ DOMAIN t # {} =>
                  /\ RMul(r.avg_q_value, FromInt(Cardinality(S))) = SumCells(S, t)
                  /\ \E c \in S : t[c[1]][c[2]] = r.max_q_value
                  /\ \A c \in S : RLeq(t[c[1]][c[2]], r.max_q_value)
                  /\ \E c \in S : t[c[1]][c[2]] = r.min_q_value
                  /\ \A c \in S : RLeq(r.min_q_value, t[c[1]][c[2]])


---------------------------------------------------------------------------
(* The calls made on the bandit: the arguments the callers pass.           *)
TitleRecruiter == <<"R", "e", "c", "r", "u", "i", "t", "e", "r">>
TitleVPData == <<"V", "P", " ", "D", "a", "t", "a">>
TitleArgs == {TitleRecruiter, TitleVPData}
CultureArgs == {"casual"}
ContextArgs == TitleArgs \X CultureArgs \X ConnArgs
ArmArgs == {"formal", "casual", "friendly"}
SampleArgs == {Rat(1, 4), Rat(3, 4)}

ContextKeyOf(c) == GetContextKey(c[1], c[2], c[3])
TSLive(i) == "distributions" \in DOMAIN tinst[i]
Beliefs(i) == theap[tinst[i].distributions]

TSFreeObj ==
    CHOOSE o \in Objs :
        /\ \A i \in Insts : TSLive(i) => tinst[i].distributions # o
        /\ "distributions" \in DOMAIN tsnap => tsnap.distributions # o

(* What the last call was, its arguments, the samples it drew and what it  *)
(* returned.                                                               *)
NoTSCall ==
    [op |-> "none", context |-> NoState, arm |-> "", got_response |-> FALSE,
     samples |-> <<>>, raised |-> FALSE, result |-> <<>>]

TSInit ==
    /\ theap = [o \in Objs |-> EmptyDict]
    /\ tinst = [i \in Insts |-> IF i = "A" THEN TS_init(NoSnap, "o1") ELSE NoAgent]
    /\ tsnap = NoSnap
    /\ tret = NoTSCall
    /\ ncall = 0
    /\ tally = EmptyDict
    /\ nsel = 0

SelectArm(i, c, samples) ==
    /\ TSLive(i)
    /\ ncall < MaxCalls
    /\ LET r == TS_select_arm(theap, tinst[i], c[1], c[2], c[3], samples)
       IN  /\ theap' = r.heap
           /\ tinst' = [tinst EXCEPT ![i] = r.ag]
           /\ tret' = [NoTSCall EXCEPT !.op = "select_arm", !.context = c,
                         !.samples = samples, !.arm = r.arm]
    /\ ncall' = ncall + 1
    /\ nsel' = nsel + 1
    /\ UNCHANGED <<tsnap, tally>>
    /\ UNCHANGED <<qlvars, thvars, dbvars, today>>

TSUpdate(i, c, arm, got_response) ==
    /\ TSLive(i)
    /\ ncall < MaxCalls
    /\ LET r == TS_update(theap, tinst[i], c[1], c[2], c[3], arm, got_response)
           p == <<ContextKeyOf(c), arm>>
           old == Get(tally, p, <<0, 0>>)
       IN  /\ theap' = r.heap
           /\ tinst' = [tinst EXCEPT ![i] = r.ag]
           /\ tret' = [NoTSCall EXCEPT !.op = "update", !.context = c,
                         !.arm = arm, !.got_response = got_response,
                         !.raised = r.raised]
           /\ tally' = IF r.raised THEN tally
                       ELSE IF got_response THEN Put(tally, p, <<old[1] + 1, old[2]>>)
                       ELSE Put(tally, p, <<old[1], old[2] + 1>>)
    /\ ncall' = ncall + 1
    /\ UNCHANGED <<tsnap, nsel>>
    /\ UNCHANGED <<qlvars, thvars, dbvars, today>>

GetArmProbabilities(i, c) ==
    /\ TSLive(i)
    /\ LET r == TS_get_arm_probabilities(theap, tinst[i], c[1], c[2], c[3])
       IN  /\ theap' = r.heap
           /\ tret' = [NoTSCall EXCEPT !.op = "get_arm_probabilities",
                         !.context = c, !.result = r.probs]
    /\ UNCHANGED <<tinst, tsnap, ncall, tally, nsel>>
    /\ UNCHANGED <<qlvars, thvars, dbvars, today>>

GetBestArm(i, c) ==
    /\ TSLive(i)
    /\ LET r == TS_get_best_arm(theap, tinst[i], c[1], c[2], c[3])
       IN  /\ theap' = r.heap
           /\ tret' = [NoTSCall EXCEPT !.op = "get_best_arm", !.context = c,
                         !.arm = r.arm, !.result = r.prob]
    /\ UNCHANGED <<tinst, tsnap, ncall, tally, nsel>>
    /\ UNCHANGED <<qlvars, thvars, dbvars, today>>

GetStatistics(i) ==
    /\ TSLive(i)
    /\ LET r == TS_get_statistics(theap, tinst[i])
       IN  tret' = [NoTSCall EXCEPT !.op = "get_statistics",
                      !.raised = r.raised, !.result = r.result]
    /\ UNCHANGED <<theap, tinst, tsnap, ncall, tally, nsel>>
    /\ UNCHANGED <<qlvars, thvars, dbvars, today>>

(* saved_data = agent.to_dict();                                           *)
(* new_agent = ThompsonSamplingMessenger(load_from_dict=saved_data)        *)
(* as the module's self-test does; the calls that follow are made on the   *)
(* new instance.                                                           *)
TSReload(i) ==
    /\ TSLive(i)
    /\ tinst' = [tinst EXCEPT ![i] = TS_init(TS_to_dict(tinst[i]), TSFreeObj)]
    /\ tret' = [NoTSCall EXCEPT !.op = "load_from_dict"]
    /\ UNCHANGED <<theap, tsnap, ncall, tally, nsel>>
    /\ UNCHANGED <<qlvars, thvars, dbvars, today>>

QLIdle ==
    /\ heap = [o \in Objs |-> EmptyDict]
    /\ inst = [i \in Insts |-> NoAgent]
    /\ snap = NoSnap
    /\ ret = NoCall
    /\ nupd = 0

TSInitAll == TSInit /\ QLIdle /\ ThreadsIdle /\ DBEmpty /\ today = 0

TSNext ==
    \/ \E c \in ContextArgs, sm \in [Range(Arms) -> SampleArgs] :
         SelectArm("A", c, sm)
    \/ \E c \in ContextArgs, a \in ArmArgs, g \in BOOLEAN :
         TSUpdate("A", c, a, g)
    \/ \E c \in ContextArgs : GetArmProbabilities("A", c)
    \/ \E c \in ContextArgs : GetBestArm("A", c)
    \/ GetStatistics("A")
    \/ TSReload("A")

SpecTS == TSInitAll /\ [][TSNext]_vars


---------------------------------------------------------------------------
(* Properties of the bandit, checked under SpecTS.                         *)

FixedArmSet == {"formal", "casual", "connection_focused"}

(* The beliefs of context key k in table d; the uniform prior for every    *)
(* arm when the row is absent and would be created.                        *)
BeliefsIn(d, k) ==
    IF k \in DOMAIN d THEN d[k]
    ELSE [b \in FixedArmSet |-> [alpha |-> 1, beta |-> 1]]

(* C2: update(context, arm, success) creates the context row with every    *)
(* arm at (1, 1) if absent, then adds exactly 1 to the arm's alpha on a    *)
(* success and exactly 1 to its beta otherwise, and changes nothing else;  *)
(* after k successes and m failures an arm's mean is (1+k)/(2+k+m), and an *)
(* untouched arm's mean is 1/2.                                            *)
C2_BeliefUpdate ==
    [][(tret'.op = "update" /\ ~tret'.raised) =>
          \A c \in {tret'.context}, a \in {tret'.arm} :
          \A k \in {ContextKeyOf(c)}, post \in {Beliefs("A")'} :
          \A pre \in {BeliefsIn(Beliefs("A"), k)} :
              /\ DOMAIN post = DOMAIN Beliefs("A") \cup {k}
              /\ DOMAIN post[k] = FixedArmSet
              /\ tret'.got_response =>
                    /\ post[k][a].alpha = pre[a].alpha + 1
                    /\ post[k][a].beta = pre[a].beta
              /\ ~tret'.got_response =>
                    /\ post[k][a].alpha = pre[a].alpha
                    /\ post[k][a].beta = pre[a].beta + 1
              /\ \A b \in FixedArmSet \ {a} : post[k][b] = pre[b]
              /\ \A x \in DOMAIN Beliefs("A") \ {k} : post[x] = Beliefs("A")[x]
              /\ \A probs \in {TS_get_arm_probabilities(theap', tinst'["A"],
                                                        c[1], c[2], c[3]).probs} :
                    \A b \in FixedArmSet :
                       \A t \in {Get(tally', <<k, b>>, <<0, 0>>)} :
                          probs[b] = Rat(1 + t[1], 2 + t[1] + t[2])
    ]_vars

(* Two successes and one failure on one arm of a fresh context: the arm is *)
(* at (3, 2), mean 3/5, and the other arms are still at the prior.         *)
C2_Witness ==
    /\ tret.op = "update" /\ ~tret.raised
    /\ \E k \in DOMAIN Beliefs("A") :
         /\ Get(tally, <<k, "casual">>, <<0, 0>>) = <<2, 1>>
         /\ Beliefs("A")[k]["casual"] = [alpha |-> 3, beta |-> 2]
         /\ Beliefs("A")[k]["formal"] = [alpha |-> 1, beta |-> 1]

(* C6: every (context, arm) pair of the belief table has alpha >= 1 and    *)
(* beta >= 1, and across any single operation neither alpha nor beta of a  *)
(* pair decreases and each changes by 0 or by exactly 1.                   *)
C6_BeliefsGrow ==
    [][/\ \A k \in DOMAIN Beliefs("A")' :
            \A b \in DOMAIN Beliefs("A")'[k] :
               /\ Beliefs("A")'[k][b].alpha >= 1
               /\ Beliefs("A")'[k][b].beta >= 1
       /\ \A k \in DOMAIN Beliefs("A") :
            /\ k \in DOMAIN Beliefs("A")'
            /\ \A b \in DOMAIN Beliefs("A")[k] :
                  /\ b \in DOMAIN Beliefs("A")'[k]
                  /\ Beliefs("A")'[k][b].alpha - Beliefs("A")[k][b].alpha \in {0, 1}
                  /\ Beliefs("A")'[k][b].beta - Beliefs("A")[k][b].beta \in {0, 1}
    ]_vars

(* A selection made on a row whose beliefs had grown on both sides.        *)
C6_Witness ==
    /\ tret.op = "select_arm"
    /\ \E k \in {ContextKeyOf(tret.context)} :
         \E b \in FixedArmSet :
            /\ Beliefs("A")[k][b].alpha = 2
            /\ Beliefs("A")[k][b].beta = 2

(* C10: select_arm(context) creates the context row with every arm at      *)
(* (1, 1) if absent, changes no alpha or beta of a row that exists, and    *)
(* returns an arm of the fixed arm set whose sample is the largest of the  *)
(* samples drawn in that call.                                             *)
C10_SelectArm ==
    [][tret'.op = "select_arm" =>
          LET k == ContextKeyOf(tret'.context)
              post == Beliefs("A")'
          IN  /\ DOMAIN post = DOMAIN Beliefs("A") \cup {k}
              /\ \A x \in DOMAIN Beliefs("A") : post[x] = Beliefs("A")[x]
              /\ k \notin DOMAIN Beliefs("A") =>
                    /\ DOMAIN post[k] = FixedArmSet
                    /\ \A b \in FixedArmSet : post[k][b] = [alpha |-> 1, beta |-> 1]
              /\ tret'.arm \in FixedArmSet
              /\ \A b \in FixedArmSet :
                    RLeq(tret'.samples[b], tret'.samples[tret'.arm])
    ]_vars

(* A selection on an existing row with evidence, won by the one arm whose  *)
(* sample was the largest, beside a second row that is still at the prior. *)
C10_Witness ==
    /\ tret.op = "select_arm"
    /\ tret.arm = "connection_focused"
    /\ tret.samples["formal"] = Rat(1, 4)
    /\ tret.samples["casual"] = Rat(1, 4)
    /\ tret.samples["connection_focused"] = Rat(3, 4)
    /\ Beliefs("A")[ContextKeyOf(tret.context)]["casual"].alpha = 2
    /\ Cardinality(DOMAIN Beliefs("A")) = 2
    /\ \E k \in DOMAIN Beliefs("A") :
         \A b \in FixedArmSet : Beliefs("A")[k][b] = [alpha |-> 1, beta |-> 1]

(* C12 as stated: every call of update adds 1 to the selection counter,    *)
(* whatever the outcome, and adds 1 to the success counter if and only if  *)
(* success is true.                                                        *)
C12_UpdateCountsBoth ==
    [][tret'.op = "update" =>
          /\ tinst'["A"].total_selections = tinst["A"].total_selections + 1
          /\ tinst'["A"].total_successes =
                tinst["A"].total_successes + (IF tret'.got_response THEN 1 ELSE 0)
    ]_vars

(* C12 amended: no call of update changes the selection counter; a call    *)
(* that names an arm of the arm set adds 1 to the success counter if and   *)
(* only if success is true, and a call that names any other arm raises and *)
(* changes neither counter.                                                *)
C12_UpdateCountsSuccess ==
    [][tret'.op = "update" =>
          /\ tinst'["A"].total_selections = tinst["A"].total_selections
          /\ tret'.raised <=> tret'.arm \notin FixedArmSet
          /\ tinst'["A"].total_successes - tinst["A"].total_successes =
                (IF tret'.got_response /\ tret'.arm \in FixedArmSet THEN 1 ELSE 0)
    ]_vars

(* A successful update that arrived after one selection: one selection and *)
(* one success are counted.                                                *)
C12_Witness ==
    /\ tret.op = "update" /\ tret.got_response /\ ~tret.raised
    /\ tinst["A"].total_selections = 1
    /\ tinst["A"].total_successes = 1
    /\ ncall = 2

(* C13: in an agent started empty, after any sequence of select_arm and    *)
(* update calls, total_selections is the number of select_arm calls made.  *)
C13_SelectionsCounted ==
    tinst["A"].total_selections = nsel

(* Two selections followed by a single update: one outcome never arrived   *)
(* and both selections are counted.                                        *)
C13_Witness ==
    /\ tret.op = "update" /\ ~tret.raised
    /\ nsel = 2
    /\ ncall = 3
    /\ tinst["A"].total_selections = 2

(* C14: mean_probabilities(context) returns alpha / (alpha + beta) for     *)
(* each arm of a known context and 1/2 for every arm of a context never    *)
(* seen, and leaves the belief table, its set of context keys and all      *)
(* counters unchanged.                                                     *)
C14_MeanProbabilities ==
    [][tret'.op = "get_arm_probabilities" =>
          \A k \in {ContextKeyOf(tret'.context)}, p \in {tret'.result} :
              /\ DOMAIN p = FixedArmSet
              /\ k \in DOMAIN Beliefs("A") =>
                    \A b \in FixedArmSet :
                       \A e \in {Beliefs("A")[k][b]} :
                          RMul(p[b], FromInt(e.alpha + e.beta)) = FromInt(e.alpha)
              /\ k \notin DOMAIN Beliefs("A") =>
                    \A b \in FixedArmSet : p[b] = Rat(1, 2)
              /\ theap' = theap
              /\ DOMAIN Beliefs("A")' = DOMAIN Beliefs("A")
              /\ tinst' = tinst
    ]_vars

(* The means of a context that is not in a table holding another context   *)
(* with evidence: 1/2 for every arm, and no row was created.               *)
C14_Witness ==
    /\ tret.op = "get_arm_probabilities"
    /\ ContextKeyOf(tret.context) \notin DOMAIN Beliefs("A")
    /\ \E k \in DOMAIN Beliefs("A") : Beliefs("A")[k]["casual"].alpha = 2
    /\ \A b \in FixedArmSet : tret.result[b] = Rat(1, 2)

(* C20: statistics() never divides by zero; it reports success_rate =      *)
(* total_successes / max(total_selections, 1), and on a never-used bandit  *)
(* success_rate 0 with zero contexts, selections and successes.            *)
C20_Statistics ==
    tret.op = "get_statistics" =>
        /\ ~tret.raised
        /\ \A r \in {tret.result}, ag \in {tinst["A"]} :
              /\ r.total_contexts = Cardinality(DOMAIN Beliefs("A"))
              /\ r.total_selections = ag.total_selections
              /\ r.total_successes = ag.total_successes
              /\ ag.total_selections >= 1 =>
                    RMul(r.success_rate, FromInt(ag.total_selections))
                      = FromInt(ag.total_successes)
              /\ ag.total_selections < 1 =>
                    r.success_rate = FromInt(ag.total_successes)
              /\ ncall = 0 =>
                    /\ r.success_rate = RZero
                    /\ r.total_contexts = 0
                    /\ r.total_selections = 0
                    /\ r.total_successes = 0

(* Statistics of a bandit that recorded a success without any selection:   *)
(* the divisor is max(0, 1) = 1 and the rate is 1.                         *)
C20_Witness ==
    /\ tret.op = "get_statistics"
    /\ tret.result.total_selections = 0
    /\ tret.result.total_successes = 1
    /\ tret.result.success_rate = ROne


(* C27: in every reachable state of a bandit total_successes is at most    *)
(* total_selections, and the success_rate statistics() reports is at most  *)
(* 1.                                                                      *)
C27_SuccessesBounded ==
    /\ tinst["A"].total_successes <= tinst["A"].total_selections
    /\ tret.op = "get_statistics" => RLeq(tret.result.success_rate, ROne)

(* C28: the per-arm selection counts statistics() reports add up to the    *)
(* total_selections it reports, also on an agent built from a snapshot.    *)
C28_ArmCountsAddUp ==
    tret.op = "get_statistics" =>
       \A r \in {tret.result} :
          r.arm_counts["formal"] + r.arm_counts["casual"]
             + r.arm_counts["connection_focused"] = r.total_selections

(* The sum of f over the set S.                                            *)
RECURSIVE SumOver(_, _)
SumOver(S, f) ==
    IF S = {} THEN 0
    ELSE LET x == CHOOSE y \in S : TRUE
         IN  f[x] + SumOver(S \ {x}, f)

(* C29: the evidence in the table matches the counters, in a bandit        *)
(* started empty and in one loaded from its to_dict(): the sum of          *)
(* alpha - 1 over all contexts and arms is total_successes, and the sum of *)
(* (alpha - 1) + (beta - 1) is the number of updates applied.              *)
C29_EvidenceMatches ==
    \A d \in {Beliefs("A")} :
    \A cells \in {Cells(d)} :
    \A successes \in {SumOver(cells, [p \in cells |-> d[p[1]][p[2]].alpha - 1])},
       failures \in {SumOver(cells, [p \in cells |-> d[p[1]][p[2]].beta - 1])} :
       /\ successes = tinst["A"].total_successes
       /\ successes + failures
            = SumOver(DOMAIN tally,
                      [p \in DOMAIN tally |-> tally[p][1] + tally[p][2]])

(* A bandit loaded from a snapshot taken after one success and one         *)
(* failure.                                                                *)
C29_Witness ==
    /\ tret.op = "load_from_dict"
    /\ tinst["A"].total_successes = 1
    /\ SumOver(DOMAIN tally, [p \in DOMAIN tally |-> tally[p][2]]) = 1
    /\ \E k \in DOMAIN Beliefs("A") : Beliefs("A")[k]["formal"].alpha = 2


---------------------------------------------------------------------------
(* Either agent on its own: a scheduler session or a bandit session.       *)
SpecAgents == (Init \/ TSInitAll) /\ [][Next \/ TSNext]_vars

(* C15: a fresh agent built by load(serialize()) of agent A returns the    *)
(* same best_action (scheduler) and the same mean_probabilities (bandit)   *)
(* as A for every state or context A had touched, and has the same         *)
(* update, selection and success counters.                                 *)
C15_RoundTrip ==
    [][/\ ret'.op = "load_from_dict" =>
            /\ inst'["A"].total_updates = inst["A"].total_updates
            /\ \A s \in StateArgs :
                  StateKeyOf(s) \in DOMAIN Table("A") =>
                     \A old \in {QL_get_best_action(heap, inst["A"], s[1], s[2], s[3])},
                        new \in {QL_get_best_action(heap', inst'["A"], s[1], s[2], s[3])} :
                        /\ new.action = old.action
                        /\ new.value = old.value
       /\ tret'.op = "load_from_dict" =>
            /\ tinst'["A"].total_selections = tinst["A"].total_selections
            /\ tinst'["A"].total_successes = tinst["A"].total_successes
            /\ \A c \in ContextArgs :
                  ContextKeyOf(c) \in DOMAIN Beliefs("A") =>
                     TS_get_arm_probabilities(theap', tinst'["A"], c[1], c[2], c[3]).probs
                       = TS_get_arm_probabilities(theap, tinst["A"], c[1], c[2], c[3]).probs
    ]_vars

(* A scheduler rebuilt from the snapshot of one that had made two updates: *)
(* it carries the counter, a learned value and the snapshot's alpha 1/2    *)
(* in place of the constructor's default.                                  *)
C15_Witness ==
    /\ ret.op = "load_from_dict"
    /\ inst["A"].total_updates = 2
    /\ inst["A"].alpha = Rat(1, 2)
    /\ \E c \in Cells(Table("A")) : RLess(RZero, Table("A")[c[1]][c[2]])


---------------------------------------------------------------------------
(* Loading a snapshot of scheduler A into a second scheduler B:            *)
(*   saved_data = A.to_dict(); B = QLearningScheduler(...);                *)
(*   B.load_from_dict(data), data holding some of the snapshot's fields    *)
(* (SchedulerAgent passes q_table, alpha, gamma, epsilon, total_updates).  *)
SnapshotKeys == {"q_table", "alpha", "gamma", "epsilon", "total_updates", "actions"}
HyperArgs == {<<DefaultAlpha, DefaultGamma, DefaultEpsilon>>,
              <<Rat(3, 10), Rat(1, 2), Rat(3, 20)>>}

Restrict(d, keys) == [k \in (DOMAIN d) \cap keys |-> d[k]]

(* A dict object that neither scheduler A nor the snapshot refers to.      *)
NewObj ==
    CHOOSE o \in Objs :
        /\ o # inst["A"].q_table
        /\ "q_table" \in DOMAIN snap => o # snap.q_table

TakeSnapshot(i) ==
    /\ Live(i)
    /\ snap' = QL_to_dict(inst[i])
    /\ ret' = [NoCall EXCEPT !.op = "to_dict", !.result = QL_to_dict(inst[i])]
    /\ UNCHANGED <<heap, inst, nupd>>
    /\ UNCHANGED <<tsvars, thvars, dbvars, today>>

Construct(i, hyper) ==
    /\ heap' = [heap EXCEPT ![NewObj] = EmptyDict]
    /\ inst' = [inst EXCEPT ![i] = QL_init(hyper[1], hyper[2], hyper[3],
                                           NoSnap, NewObj)]
    /\ ret' = [NoCall EXCEPT !.op = "__init__"]
    /\ UNCHANGED <<snap, nupd>>
    /\ UNCHANGED <<tsvars, thvars, dbvars, today>>

LoadFromDict(i, keys) ==
    /\ Live(i)
    /\ "q_table" \in DOMAIN snap
    /\ LET data == Restrict(snap, keys)
       IN  /\ heap' = [heap EXCEPT ![NewObj] = EmptyDict]
           /\ inst' = [inst EXCEPT ![i] = QL_load_from_dict(inst[i], data, NewObj)]
           /\ ret' = [NoCall EXCEPT !.op = "load_from_dict", !.result = data]
    /\ UNCHANGED <<snap, nupd>>
    /\ UNCHANGED <<tsvars, thvars, dbvars, today>>

LoadNext ==
    \/ \E i \in Insts, s \in {<<4, "startup", TRUE>>}, a \in {"wait_5d"},
          r \in {10} :
         Update(i, s, a, r, NoState)
    \/ TakeSnapshot("A")
    \/ \E h \in HyperArgs : Construct("B", h)
    \/ \E keys \in SUBSET SnapshotKeys : LoadFromDict("B", keys)

SpecLoad == Init /\ [][LoadNext]_vars

(* C16: load(snapshot) overlays only the fields present in the snapshot:   *)
(* each of alpha, gamma, epsilon that the snapshot omits keeps the value   *)
(* it had before the load, and each one present takes the snapshot's.      *)
C16_LoadOverlay ==
    [][ret'.op = "load_from_dict" =>
          \A f \in {"alpha", "gamma", "epsilon"} :
             /\ f \in DOMAIN ret'.result => inst'["B"][f] = ret'.result[f]
             /\ f \notin DOMAIN ret'.result => inst'["B"][f] = inst["B"][f]
    ]_vars

(* A load of a snapshot that holds alpha but neither gamma nor epsilon     *)
(* into a scheduler constructed with (3/10, 1/2, 3/20): alpha is the       *)
(* snapshot's 1/2, gamma and epsilon are still the constructor's.          *)
C16_Witness ==
    /\ ret.op = "load_from_dict"
    /\ "alpha" \in DOMAIN ret.result
    /\ "gamma" \notin DOMAIN ret.result
    /\ "epsilon" \notin DOMAIN ret.result
    /\ inst["B"].alpha = Rat(1, 2)
    /\ inst["B"].gamma = Rat(1, 2)
    /\ inst["B"].epsilon = Rat(3, 20)


(* C25: each instance owns its table: an update applied to one of two      *)
(* scheduler instances, one of them loaded from the other's to_dict(),     *)
(* leaves the table and the best action of the other instance unchanged.   *)
C25_OwnTable ==
    [][(/\ ret'.op = "update"
        /\ "q_table" \in DOMAIN inst["A"]
        /\ "q_table" \in DOMAIN inst["B"]) =>
          \A i \in Insts :
             (inst'[i] = inst[i]) =>
                /\ heap'[inst'[i].q_table] = heap[inst[i].q_table]
                /\ \A s \in {<<4, "startup", TRUE>>} :
                      QL_get_best_action(heap', inst'[i], s[1], s[2], s[3]).value
                        = QL_get_best_action(heap, inst[i], s[1], s[2], s[3]).value
    ]_vars


(* C26: rows are only ever added: no operation on a live instance (an      *)
(* update, a serialize, a load) takes a key out of the instance's table or *)
(* sets a row that holds a learned value back to its initial zeros.        *)
C26_RowsOnlyAdded ==
    [][ret'.op # "__init__" =>
          \A i \in Insts :
             ("q_table" \in DOMAIN inst[i] /\ "q_table" \in DOMAIN inst'[i]) =>
                \A old \in {heap[inst[i].q_table]},
                   new \in {heap'[inst'[i].q_table]} :
                   /\ DOMAIN old \subseteq DOMAIN new
                   /\ \A k \in DOMAIN old :
                         old[k] # NewRow(Actions) => new[k] # NewRow(Actions)
    ]_vars


---------------------------------------------------------------------------
(* MessageAgent: the bandit behind the rl_state row 'thompson_sampling'.   *)
(* Of the row only thompson_params and total_updates are written and read  *)
(* by the agent.  The JSON column stores a copy of the dict's contents;    *)
(* its keys are strings and its values floats, which JSON gives back       *)
(* unchanged.  An application that is not found is NoState.                *)

(* _load_from_database on a new agent whose own table is object obj: the   *)
(* dict read from the row is a new object, here obj with new contents.     *)
(* failed: the query raised, which the except clause swallows.             *)
MA_load_from_database(h, ag, row, obj, failed) ==
    IF ~failed /\ ~row.none /\ row.thompson_params # EmptyDict
    THEN [heap |-> [h EXCEPT ![obj] = row.thompson_params],
          ag |-> TS_load_from_dict(ag, [distributions |-> obj,
                                        total_selections |-> row.total_updates],
                                   obj)]
    ELSE [heap |-> h, ag |-> ag]

(* save_to_database: the rows after a commit.                              *)
MA_save_to_database(h, ag, rows) ==
    LET ts_data == TS_to_dict(ag)
    IN  [rows EXCEPT !.thompson_sampling =
           [none |-> FALSE,
            thompson_params |-> h[ts_data.distributions],
            total_updates |-> ts_data.total_selections]]

(* MessageAgent(): the process restarts and the agent is built anew.       *)
NewMessageAgent(failed) ==
    /\ TSLive("A")
    /\ LET h0 == [theap EXCEPT !["o1"] = EmptyDict]
           r == MA_load_from_database(h0, TS_init(NoSnap, "o1"),
                                      db.thompson_sampling, "o1", failed)
       IN  /\ theap' = r.heap
           /\ tinst' = [tinst EXCEPT !["A"] = r.ag]
    /\ tret' = [NoTSCall EXCEPT !.op = "MessageAgent", !.result = failed]
    /\ UNCHANGED <<tsnap, ncall, tally, nsel>>
    /\ UNCHANGED <<qlvars, thvars, dbvars, today>>

GetStyleRecommendation(app, samples) ==
    /\ TSLive("A")
    /\ ncall < MaxCalls
    /\ IF app = NoState
       THEN /\ tret' = [NoTSCall EXCEPT !.op = "get_style_recommendation",
                          !.result = "error"]
            /\ UNCHANGED <<theap, tinst>>
       ELSE LET r == TS_select_arm(theap, tinst["A"], app[1], app[2], app[3], samples)
                p == TS_get_arm_probabilities(r.heap, r.ag, app[1], app[2], app[3])
            IN  /\ theap' = p.heap
                /\ tinst' = [tinst EXCEPT !["A"] = r.ag]
                /\ tret' = [NoTSCall EXCEPT !.op = "get_style_recommendation",
                              !.context = app, !.arm = r.arm,
                              !.result = p.probs[r.arm]]
    /\ ncall' = ncall + 1
    /\ UNCHANGED <<tsnap, tally, nsel>>
    /\ UNCHANGED <<qlvars, thvars, dbvars, today>>

(* committed: whether db.commit() of the save went through.                *)
UpdateFromOutcome(app, style_used, got_response, committed) ==
    /\ TSLive("A")
    /\ ncall < MaxCalls
    /\ IF app = NoState
       THEN /\ tret' = [NoTSCall EXCEPT !.op = "update_from_outcome",
                          !.result = FALSE]
            /\ UNCHANGED <<theap, tinst, db>>
       ELSE LET r == TS_update(theap, tinst["A"], app[1], app[2], app[3],
                               style_used, got_response)
                saved == ~r.raised /\ committed
            IN  /\ theap' = r.heap
                /\ tinst' = [tinst EXCEPT !["A"] = r.ag]
                /\ db' = IF saved THEN MA_save_to_database(r.heap, r.ag, db)
                         ELSE db
                /\ tret' = [NoTSCall EXCEPT !.op = "update_from_outcome",
                              !.context = app, !.arm = style_used,
                              !.got_response = got_response,
                              !.raised = r.raised, !.result = saved]
    /\ ncall' = ncall + 1
    /\ UNCHANGED <<tsnap, tally, nsel>>
    /\ UNCHANGED <<qlvars, thvars, today>>

SaveToDatabase(committed) ==
    /\ TSLive("A")
    /\ db' = IF committed THEN MA_save_to_database(theap, tinst["A"], db) ELSE db
    /\ tret' = [NoTSCall EXCEPT !.op = "save_to_database", !.result = committed]
    /\ UNCHANGED <<theap, tinst, tsnap, ncall, tally, nsel>>
    /\ UNCHANGED <<qlvars, thvars, today>>

(* The applications of the requests: the context of each, or not found.   *)
AppArgs == {<<TitleVPData, "casual", TRUE>>, NoState}

MsgNext ==
    \/ \E failed \in BOOLEAN : NewMessageAgent(failed)
    \/ \E app \in AppArgs, sm \in [Range(Arms) -> SampleArgs] :
         GetStyleRecommendation(app, sm)
    \/ \E app \in AppArgs, a \in {"formal", "friendly"}, g \in BOOLEAN,
          ok \in BOOLEAN :
         UpdateFromOutcome(app, a, g, ok)
    \/ \E ok \in BOOLEAN : SaveToDatabase(ok)

SpecMsg == TSInitAll /\ [][MsgNext]_vars

(* C17: the persisted state of the bandit carries the belief table and     *)
(* both counters: a MessageAgent constructed right after a committed       *)
(* save_to_database, its load going through, has the distributions,        *)
(* total_selections and total_successes the saving agent had.              *)
C17_PersistedState ==
    [][(/\ tret.op = "save_to_database"
        /\ tret.result = TRUE
        /\ tret'.op = "MessageAgent"
        /\ tret'.result = FALSE) =>
          /\ theap'[tinst'["A"].distributions] = theap[tinst["A"].distributions]
          /\ tinst'["A"].total_selections = tinst["A"].total_selections
          /\ tinst'["A"].total_successes = tinst["A"].total_successes
    ]_vars


---------------------------------------------------------------------------
(* SchedulerAgent: the scheduler behind the rl_state row 'q_learning'.     *)
(* The JSON column stores a copy of the table's contents; its keys are     *)
(* strings and its values floats, which JSON gives back unchanged.  The    *)
(* requests are about one application, applied for on day 0, so that       *)
(* (datetime.utcnow() - app.applied_date).days is today; an application    *)
(* that is not found is NoState, one that is found is its                  *)
(* <<company_type, has_connection>>.                                       *)
MaxElapsed == 3

(* int(action.split('_')[1].replace('d', '')) of the action names used.    *)
WaitDays ==
    [a \in {"wait_1d", "wait_2d", "wait_3d", "wait_5d", "wait_7d", "wait_10d",
            "wait_14d"} |->
       CASE a = "wait_1d" -> 1 [] a = "wait_2d" -> 2 [] a = "wait_3d" -> 3
         [] a = "wait_5d" -> 5 [] a = "wait_7d" -> 7 [] a = "wait_10d" -> 10
         [] a = "wait_14d" -> 14]

(* A variant that adds the response bonus on top of the interview bonus.   *)
Reward_Both(got_response, got_interview, wait_days) ==
    (IF got_interview THEN 50 ELSE 0) + (IF got_response THEN 20 ELSE 0)
        - 2 * wait_days

(* reward = 0; if got_interview: += 50; elif got_response: += 20;          *)
(* reward -= 2 * wait_days                                                 *)
Reward(got_response, got_interview, wait_days) ==
    (IF got_interview THEN 50 ELSE IF got_response THEN 20 ELSE 0)
        - 2 * wait_days

(* A variant without the except clause: a failing query raises out of the  *)
(* constructor.                                                            *)
SA_load_from_database_Raises(h, ag, row, obj, failed) ==
    IF failed THEN [heap |-> h, ag |-> ag, raised |-> TRUE]
    ELSE IF ~row.none /\ row.q_table # EmptyDict
    THEN [heap |-> [h EXCEPT ![obj] = row.q_table],
          ag |-> QL_load_from_dict(ag, [q_table |-> obj,
                                        alpha |-> row.learning_rate,
                                        gamma |-> row.discount_factor,
                                        epsilon |-> row.epsilon,
                                        total_updates |-> row.total_updates],
                                   obj),
          raised |-> FALSE]
    ELSE [heap |-> h, ag |-> ag, raised |-> FALSE]

(* _load_from_database on a new agent whose own table is object obj; the   *)
(* dict read from the row is a new object, here obj with new contents.     *)
(* failed: the query raised, which the except clause swallows.             *)
SA_load_from_database(h, ag, row, obj, failed) ==
    IF ~failed /\ ~row.none /\ row.q_table # EmptyDict
    THEN [heap |-> [h EXCEPT ![obj] = row.q_table],
          ag |-> QL_load_from_dict(ag, [q_table |-> obj,
                                        alpha |-> row.learning_rate,
                                        gamma |-> row.discount_factor,
                                        epsilon |-> row.epsilon,
                                        total_updates |-> row.total_updates],
                                   obj),
          raised |-> FALSE]
    ELSE [heap |-> h, ag |-> ag, raised |-> FALSE]

(* save_to_database: the rows after a commit.  An existing row keeps the   *)
(* hyperparameters it was created with.                                    *)
SA_save_to_database(h, ag, rows) ==
    LET ql_data == QL_to_dict(ag)
    IN  IF rows.q_learning.none
        THEN [rows EXCEPT !.q_learning =
                [none |-> FALSE,
                 q_table |-> h[ql_data.q_table],
                 learning_rate |-> ql_data.alpha,
                 discount_factor |-> ql_data.gamma,
                 epsilon |-> ql_data.epsilon,
                 total_updates |-> ql_data.total_updates]]
        ELSE [rows EXCEPT !.q_learning.q_table = h[ql_data.q_table],
                          !.q_learning.total_updates = ql_data.total_updates]

(* SchedulerAgent(): the process restarts and the agent is built anew.     *)
NewSchedulerAgent(failed) ==
    /\ Live("A")
    /\ LET h0 == [heap EXCEPT !["o1"] = EmptyDict]
           r == SA_load_from_database(h0,
                    QL_init(DefaultAlpha, DefaultGamma, DefaultEpsilon, NoSnap, "o1"),
                    db.q_learning, "o1", failed)
       IN  /\ heap' = r.heap
           /\ inst' = [inst EXCEPT !["A"] = IF r.raised THEN NoAgent ELSE r.ag]
           /\ ret' = [NoCall EXCEPT !.op = "SchedulerAgent", !.raised = r.raised,
                        !.result = failed]
    /\ UNCHANGED <<snap, nupd>>
    /\ UNCHANGED <<tsvars, thvars, dbvars, today>>

SA_GetRecommendation(app) ==
    /\ Live("A")
    /\ IF app = NoState
       THEN /\ ret' = [NoCall EXCEPT !.op = "get_recommendation", !.result = "error"]
            /\ UNCHANGED heap
       ELSE LET r == QL_get_best_action(heap, inst["A"], today, app[1], app[2])
            IN  /\ heap' = r.heap
                /\ ret' = [NoCall EXCEPT !.op = "get_recommendation",
                             !.state = <<today, app[1], app[2]>>,
                             !.action = r.action, !.value = r.value,
                             !.result = [wait_days |-> WaitDays[r.action],
                                         total_days |-> today + WaitDays[r.action]]]
    /\ UNCHANGED <<inst, snap, nupd>>
    /\ UNCHANGED <<tsvars, thvars, dbvars, today>>

(* committed: whether db.commit() of the save went through.                *)
SA_UpdateFromOutcome(app, action_taken, got_response, got_interview, committed) ==
    /\ Live("A")
    /\ nupd < MaxUpdates
    /\ IF app = NoState
       THEN /\ ret' = [NoCall EXCEPT !.op = "update_from_outcome",
                         !.result = "not found"]
            /\ UNCHANGED <<heap, inst, db>>
       ELSE LET reward == Reward(got_response, got_interview, WaitDays[action_taken])
                state == <<today, app[1], app[2]>>
                r == QL_update(heap, inst["A"], state, action_taken, reward, NoState)
                saved == ~r.raised /\ committed
            IN  /\ heap' = r.heap
                /\ inst' = [inst EXCEPT !["A"] = r.ag]
                /\ db' = IF saved THEN SA_save_to_database(r.heap, r.ag, db)
                         ELSE db
                /\ ret' = [NoCall EXCEPT !.op = "update_from_outcome",
                             !.state = state, !.action = action_taken,
                             !.reward = reward, !.raised = r.raised,
                             !.result = [got_response |-> got_response,
                                         got_interview |-> got_interview,
                                         saved |-> saved]]
    /\ nupd' = nupd + 1
    /\ UNCHANGED snap
    /\ UNCHANGED <<tsvars, thvars, today>>

SA_SaveToDatabase(committed) ==
    /\ Live("A")
    /\ db' = IF committed THEN SA_save_to_database(heap, inst["A"], db) ELSE db
    /\ ret' = [NoCall EXCEPT !.op = "save_to_database", !.result = committed]
    /\ UNCHANGED <<heap, inst, snap, nupd>>
    /\ UNCHANGED <<tsvars, thvars, today>>

(* A day passes.                                                           *)
Tick ==
    /\ today < MaxElapsed
    /\ today' = today + 1
    /\ UNCHANGED <<qlvars, tsvars, thvars, dbvars>>

SchedNext ==
    \/ \E failed \in BOOLEAN : NewSchedulerAgent(failed)
    \/ \E app \in {<<"startup", TRUE>>, NoState} : SA_GetRecommendation(app)
    \/ \E app \in {<<"startup", TRUE>>, NoState}, a \in {"wait_1d", "wait_2d"},
          g \in BOOLEAN, i \in BOOLEAN, ok \in BOOLEAN :
         SA_UpdateFromOutcome(app, a, g, i, ok)
    \/ \E ok \in BOOLEAN : SA_SaveToDatabase(ok)
    \/ Tick

(* The agent SchedulerAgent() builds over an empty database.               *)
SchedInit ==
    /\ heap = [o \in Objs |-> EmptyDict]
    /\ inst = [i \in Insts |->
                IF i = "A"
                THEN QL_init(DefaultAlpha, DefaultGamma, DefaultEpsilon, NoSnap, "o1")
                ELSE NoAgent]
    /\ snap = NoSnap
    /\ ret = NoCall
    /\ nupd = 0
    /\ TSIdle /\ ThreadsIdle /\ DBEmpty /\ today = 0

SpecSched == SchedInit /\ [][SchedNext]_vars

C30_SameRow ==
    [][(/\ ret.op = "get_recommendation"
        /\ ret.state # NoState
        /\ nupd' # nupd
        /\ ret'.op = "update_from_outcome"
        /\ ret'.state # NoState
        /\ ret'.action = ret.action) =>
          StateKeyOf(ret'.state) = StateKeyOf(ret.state)
    ]_vars


---------------------------------------------------------------------------
(* Either persistent agent on its own.                                     *)
SpecPersist == (SchedInit \/ TSInitAll) /\ [][SchedNext \/ MsgNext]_vars

(* C24: a persistence failure is neither fatal nor harmful to the state in *)
(* memory.  A load that fails while an agent is constructed leaves a       *)
(* constructed agent with an empty table and counters at zero; a save that *)
(* fails, on its own or at the end of update_from_outcome, raises nothing  *)
(* and leaves the table and the counters as they were before the save.     *)
C24_PersistenceFailure ==
    [][/\ (ret'.op = "SchedulerAgent" /\ ret'.result = TRUE) =>
            /\ ~ret'.raised
            /\ "q_table" \in DOMAIN inst'["A"]
            /\ heap'[inst'["A"].q_table] = EmptyDict
            /\ inst'["A"].total_updates = 0
       /\ (tret'.op = "MessageAgent" /\ tret'.result = TRUE) =>
            /\ ~tret'.raised
            /\ "distributions" \in DOMAIN tinst'["A"]
            /\ theap'[tinst'["A"].distributions] = EmptyDict
            /\ tinst'["A"].total_selections = 0
            /\ tinst'["A"].total_successes = 0
       /\ (ret'.op = "save_to_database" /\ ret'.result = FALSE) =>
            ~ret'.raised /\ heap' = heap /\ inst' = inst
       /\ (tret'.op = "save_to_database" /\ tret'.result = FALSE) =>
            ~tret'.raised /\ theap' = theap /\ tinst' = tinst
       /\ (/\ nupd' # nupd /\ ret'.op = "update_from_outcome"
           /\ ret'.state # NoState /\ ~ret'.raised /\ ~ret'.result.saved) =>
            \A r \in {QL_update(heap, inst["A"], ret'.state, ret'.action,
                                 ret'.reward, NoState)} :
               heap' = r.heap /\ inst'["A"] = r.ag /\ db' = db
       /\ (/\ ncall' # ncall /\ tret'.op = "update_from_outcome"
           /\ tret'.context # NoState /\ ~tret'.raised /\ ~tret'.result) =>
            \A r \in {TS_update(theap, tinst["A"], tret'.context[1],
                                 tret'.context[2], tret'.context[3], tret'.arm,
                                 tret'.got_response)} :
               theap' = r.heap /\ tinst'["A"] = r.ag /\ db' = db
    ]_vars

(* A SchedulerAgent built while the stored row holds a table but the query *)
(* fails: it starts cold.                                                  *)
C24_Witness ==
    /\ ret.op = "SchedulerAgent"
    /\ ret.result = TRUE
    /\ ~db.q_learning.none
    /\ db.q_learning.q_table # EmptyDict
    /\ db.q_learning.total_updates = 2
    /\ Table("A") = EmptyDict
    /\ inst["A"].total_updates = 0


---------------------------------------------------------------------------
(* The two key functions on their own: _get_state_key of a scheduler and   *)
(* _get_context_key of a bandit, called with every input of a bounded set. *)
MaxDays == 12
TitleTokens ==
    {<<"T", "a", "l", "e", "n", "t">>,
     <<"H", "R">>,
     <<"R", "e", "c", "r", "u", "i", "t", "i", "n", "g">>,
     <<"V", "P">>,
     <<"C", "h", "i", "e", "f">>,
     <<"H", "e", "a", "d">>,
     <<"D", "i", "r", "e", "c", "t", "o", "r">>,
     <<"L", "e", "a", "d">>,
     <<"E", "n", "g", "i", "n", "e", "e", "r">>,
     <<"D", "a", "t", "a">>}
TitleVPTalent == <<"V", "P", " ", "o", "f", " ", "T", "a", "l", "e", "n", "t", " ", "A", "c", "q", "u", "i", "s", "i", "t", "i", "o", "n">>

(* Titles of one or two words, and the title the documentation names.      *)
KeyTitleArgs ==
    TitleTokens \cup {a \o <<" ">> \o b : a \in TitleTokens, b \in TitleTokens}
        \cup {TitleVPTalent}

StateKeyCall(i, days, company, conn) ==
    /\ Live(i)
    /\ ret' = [NoCall EXCEPT !.op = "_get_state_key",
                 !.state = <<days, company, conn>>,
                 !.result = GetStateKey(days, company, conn)]
    /\ UNCHANGED <<heap, inst, snap, nupd>>
    /\ UNCHANGED <<tsvars, thvars, dbvars, today>>

ContextKeyCall(i, title, culture, conn) ==
    /\ TSLive(i)
    /\ tret' = [NoTSCall EXCEPT !.op = "_get_context_key",
                  !.context = <<title, culture, conn>>,
                  !.result = GetContextKey(title, culture, conn)]
    /\ UNCHANGED <<theap, tinst, tsnap, ncall, tally, nsel>>
    /\ UNCHANGED <<qlvars, thvars, dbvars, today>>

KeysNext ==
    \/ \E d \in 0..MaxDays, c \in {"startup", "midsize", "enterprise"},
          b \in BOOLEAN :
         StateKeyCall("A", d, c, b)
    \/ \E t \in KeyTitleArgs, c \in {"casual", "formal"}, b \in BOOLEAN :
         ContextKeyCall("A", t, c, b)

SpecKeys == (Init \/ TSInitAll) /\ [][KeysNext]_vars

(* C21: the title category is that of the first keyword group, in the      *)
(* order recruiter, executive, director, that has a word in the lowered    *)
(* title, else manager; "VP of Talent Acquisition" is a recruiter.         *)
C21_TitlePrecedence ==
    tret.op = "_get_context_key" =>
       \A t \in {Lower(tret.context[1])} :
       \A rec \in {\E w \in RecruiterWords : Contains(w, t)},
          exe \in {\E w \in ExecutiveWords : Contains(w, t)},
          dir \in {\E w \in DirectorWords : Contains(w, t)},
          rest \in {"_" \o tret.context[2] \o "_" \o BoolStr(tret.context[3])} :
          /\ rec => tret.result = "recruiter" \o rest
          /\ ~rec /\ exe => tret.result = "executive" \o rest
          /\ ~rec /\ ~exe /\ dir => tret.result = "director" \o rest
          /\ ~rec /\ ~exe /\ ~dir => tret.result = "manager" \o rest
          /\ tret.context[1] = TitleVPTalent => tret.result = "recruiter" \o rest

(* The key of "VP of Talent Acquisition", which holds a recruiter word and *)
(* an executive word.                                                      *)
C21_Witness ==
    /\ tret.op = "_get_context_key"
    /\ tret.context[1] = TitleVPTalent
    /\ Contains(<<"v", "p">>, Lower(tret.context[1]))
    /\ Contains(<<"t", "a", "l", "e", "n", "t">>, Lower(tret.context[1]))
    /\ tret.result = "recruiter_formal_False"

---------------------------------------------------------------------------
(* Request handlers that call one scheduler instance concurrently.  The    *)
(* code takes no lock, so a thread switch can fall between any two         *)
(* statements of a call and between the read and the write of              *)
(* self.total_updates += 1.  A thread's position is the statement it       *)
(* executes next.                                                          *)
Threads == 1..NThreads
ThreadState == <<1, "startup", TRUE>>
ThreadNextState == <<4, "startup", TRUE>>
ThreadCalls ==
    {[op |-> "update", state |-> ThreadState, action |-> "wait_5d",
      reward |-> r, next_state |-> n, explore |-> FALSE] :
        r \in {10, 20}, n \in {NoState, ThreadNextState}}
    \cup
    {[op |-> "get_action", state |-> ThreadState, action |-> "",
      reward |-> 0, next_state |-> NoState, explore |-> FALSE]}

NoLocals == [current_q |-> RZero, max_next_q |-> RZero, tmp |-> 0, result |-> ""]

ConcInit ==
    /\ heap = [o \in Objs |-> EmptyDict]
    /\ inst = [i \in Insts |->
                 IF i = "A"
                 THEN QL_init(Rat(1, 2), DefaultGamma, DefaultEpsilon, NoSnap, "o1")
                 ELSE NoAgent]
    /\ snap = NoSnap
    /\ ret = NoCall
    /\ nupd = 0
    /\ TSIdle
    /\ DBEmpty
    /\ today = 0
    /\ call \in [Threads -> ThreadCalls]
    /\ pc = [t \in Threads |-> "check"]
    /\ loc = [t \in Threads |-> NoLocals]

KeyOfThread(t) == StateKeyOf(call[t].state)
SetTable(q_table) == heap' = [heap EXCEPT ![inst["A"].q_table] = q_table]
Goto(t, label) == pc' = [pc EXCEPT ![t] = label]
ConcFrame == UNCHANGED <<snap, ret, nupd, tsvars, call, dbvars, today>>

(* state_key = ...; if state_key not in self.q_table:                      *)
T_Check(t) ==
    /\ pc[t] = "check"
    /\ Goto(t, IF KeyOfThread(t) \notin DOMAIN Table("A") THEN "init"
               ELSE IF call[t].op = "update" THEN "read" ELSE "choose")
    /\ UNCHANGED <<heap, inst, loc>>
    /\ ConcFrame

(* self.q_table[state_key] = {action: 0.0 for action in self.actions}      *)
T_Init(t) ==
    /\ pc[t] = "init"
    /\ SetTable(Put(Table("A"), KeyOfThread(t), NewRow(inst["A"].actions)))
    /\ Goto(t, IF call[t].op = "update" THEN "read" ELSE "choose")
    /\ UNCHANGED <<inst, loc>>
    /\ ConcFrame

(* get_action with explore false: action = random.choice(best_actions)     *)
T_Choose(t) ==
    /\ pc[t] = "choose"
    /\ \E a \in BestActions(Table("A")[KeyOfThread(t)], inst["A"].actions) :
         loc' = [loc EXCEPT ![t].result = a]
    /\ Goto(t, "done")
    /\ UNCHANGED <<heap, inst>>
    /\ ConcFrame

(* current_q = self.q_table[state_key][action]                             *)
T_Read(t) ==
    /\ pc[t] = "read"
    /\ loc' = [loc EXCEPT ![t].current_q = Table("A")[KeyOfThread(t)][call[t].action]]
    /\ Goto(t, IF call[t].next_state = NoState THEN "write" ELSE "next_check")
    /\ UNCHANGED <<heap, inst>>
    /\ ConcFrame

(* next_state_key = ...; if next_state_key not in self.q_table:            *)
T_NextCheck(t) ==
    /\ pc[t] = "next_check"
    /\ Goto(t, IF StateKeyOf(call[t].next_state) \notin DOMAIN Table("A")
               THEN "next_init" ELSE "next_max")
    /\ UNCHANGED <<heap, inst, loc>>
    /\ ConcFrame

(* self.q_table[next_state_key] = {a: 0.0 for a in self.actions}           *)
T_NextInit(t) ==
    /\ pc[t] = "next_init"
    /\ SetTable(Put(Table("A"), StateKeyOf(call[t].next_state),
                    NewRow(inst["A"].actions)))
    /\ Goto(t, "next_max")
    /\ UNCHANGED <<inst, loc>>
    /\ ConcFrame

(* max_next_q = max(self.q_table[next_state_key].values())                 *)
T_NextMax(t) ==
    /\ pc[t] = "next_max"
    /\ loc' = [loc EXCEPT ![t].max_next_q =
                 MaxNextQ(Table("A"), call[t].next_state, inst["A"].actions)]
    /\ Goto(t, "write")
    /\ UNCHANGED <<heap, inst>>
    /\ ConcFrame

(* new_q = ...; self.q_table[state_key][action] = new_q                    *)
T_Write(t) ==
    /\ pc[t] = "write"
    /\ SetTable([Table("A") EXCEPT ![KeyOfThread(t)][call[t].action] =
                   TDUpdate(loc[t].current_q, inst["A"].alpha, inst["A"].gamma,
                            FromInt(call[t].reward), loc[t].max_next_q)])
    /\ Goto(t, "count_read")
    /\ UNCHANGED <<inst, loc>>
    /\ ConcFrame

(* self.total_updates += 1: the read ...                                   *)
T_CountRead(t) ==
    /\ pc[t] = "count_read"
    /\ loc' = [loc EXCEPT ![t].tmp = inst["A"].total_updates]
    /\ Goto(t, "count_write")
    /\ UNCHANGED <<heap, inst>>
    /\ ConcFrame

(* ... and the write.                                                      *)
T_CountWrite(t) ==
    /\ pc[t] = "count_write"
    /\ inst' = [inst EXCEPT !["A"].total_updates = loc[t].tmp + 1]
    /\ Goto(t, "done")
    /\ UNCHANGED <<heap, loc>>
    /\ ConcFrame

ConcNext ==
    \/ \E t \in Threads : T_Check(t)
    \/ \E t \in Threads : T_Init(t)
    \/ \E t \in Threads : T_Choose(t)
    \/ \E t \in Threads : T_Read(t)
    \/ \E t \in Threads : T_NextCheck(t)
    \/ \E t \in Threads : T_NextInit(t)
    \/ \E t \in Threads : T_NextMax(t)
    \/ \E t \in Threads : T_Write(t)
    \/ \E t \in Threads : T_CountRead(t)
    \/ \E t \in Threads : T_CountWrite(t)

SpecConc == ConcInit /\ [][ConcNext]_vars

(* The (table, attributes) pairs that applying the update calls of the     *)
(* threads in S one after another, in some order, leads to from (h, ag).   *)
RECURSIVE SequentialResults(_, _, _)
SequentialResults(S, h, ag) ==
    IF S = {} THEN {<<h[ag.q_table], ag>>}
    ELSE UNION {LET r == QL_update(h, ag, call[t].state, call[t].action,
                                   call[t].reward, call[t].next_state)
                IN  SequentialResults(S \ {t}, r.heap, r.ag) : t \in S}

AllDone == \A t \in Threads : pc[t] = "done"
AllUpdates == \A t \in Threads : call[t].op = "update"

(* C3: N concurrent update calls on the same state, with no other call in  *)
(* flight, end with the update counter increased by exactly N and with a   *)
(* table that applying the N updates in some sequential order gives.       *)
C3_NoLostUpdate ==
    (AllDone /\ AllUpdates) =>
        /\ inst["A"].total_updates = NThreads
        /\ <<Table("A"), inst["A"]>> \in
             SequentialResults(Threads, [o \in Objs |-> EmptyDict],
                               [inst["A"] EXCEPT !.total_updates = 0])

(* C4: the lazy initialization of one call never replaces a row another    *)
(* call has created or written, and no row ever lacks an action: check and *)
(* initialization act as one atomic step.                                  *)
C4_AtomicLazyInit ==
    [][/\ \A t \in Threads :
            (pc[t] \in {"init", "next_init"} /\ pc'[t] # pc[t]) =>
               \A k \in DOMAIN Table("A") : Table("A")'[k] = Table("A")[k]
       /\ \A k \in DOMAIN Table("A")' :
            DOMAIN Table("A")'[k] = FixedActionSet
    ]_vars

=============================================================================
